---- MODULE Spec2Model ----
(***************************************************************************)
(* A model of the voxel-wise encoding workflow of                          *)
(* machine_learning/4_encoding_miyawaki.ipynb: loading and aligning the    *)
(* stimuli and the fMRI responses, the K-fold cross-validation loop that   *)
(* scores a ridge regression per voxel with R^2, and the clamped mean      *)
(* score that is mapped on the brain, and the loop that fits a receptive   *)
(* field per chosen voxel and reshapes its coefficients to 10 x 10.        *)
(*                                                                         *)
(* The notebook calls numpy and scikit-learn; the operators below follow   *)
(* what those calls compute (KFold.split, r2_score with                    *)
(* multioutput='raw_values', np.reshape, np.vstack, np.mean, fancy         *)
(* indexing).  Real numbers are exact rationals <<num, den>>, den > 0.     *)
(* The fitted Ridge model itself is not recomputed: a fit is one of a few  *)
(* deterministic predictors (FitKinds), fixed per channel for a run.       *)
(***************************************************************************)
EXTENDS Integers, Sequences, FiniteSets, TLC

\* ------------------------------------------------------------------ bounds
\* longest run, in samples
MaxRunLen == 4
\* largest n_splits tried in the workflow
MaxSplits == 3
\* largest sample count and fold count of the stand-alone K-fold check
MaxN == 21
MaxK == 11
\* most samples in an array handed to the stand-alone reshape check
MaxSamples == 4

\* ------------------------------------------------------- program constants
\* stimulus_shape = (10, 10)
StimRows == 10
StimCols == 10
\* samples dropped at the start of each fMRI run and the end of each
\* stimulus run
Offset == 2

NPixels == StimRows * StimCols
Chans == 1 .. 2
\* two run files: enough for stacking across runs to matter
Runs == 1 .. 2

\* ---------------------------------------------------------------- helpers
Min(a, b) == IF a < b THEN a ELSE b
Max(a, b) == IF a > b THEN a ELSE b
Abs(a) == IF a < 0 THEN -a ELSE a

RECURSIVE Gcd(_, _)
Gcd(a, b) == IF b = 0 THEN a ELSE Gcd(b, a % b)

RECURSIVE SumSeq(_)
SumSeq(s) == IF s = <<>> THEN 0 ELSE Head(s) + SumSeq(Tail(s))

RECURSIVE Concat(_)
Concat(ss) == IF ss = <<>> THEN <<>> ELSE Head(ss) \o Concat(Tail(ss))

Range(s) == {s[i] : i \in DOMAIN s}

\* ------------------------------------------------- exact rational numbers
Rat(n, d) ==
    LET g == Gcd(Abs(n), Abs(d))
        s == IF d < 0 THEN -1 ELSE 1
    IN  <<(s * n) \div g, (s * d) \div g>>
RInt(n) == <<n, 1>>
RAdd(x, y) ==
    LET l == (x[2] \div Gcd(x[2], y[2])) * y[2]
    IN  Rat(x[1] * (l \div x[2]) + y[1] * (l \div y[2]), l)
RSub(x, y) == RAdd(x, <<-y[1], y[2]>>)
RDivInt(x, k) == Rat(x[1], x[2] * k)
RNeg(x) == x[1] < 0
RECURSIVE RSum(_)
RSum(s) == IF s = <<>> THEN RInt(0) ELSE RAdd(Head(s), RSum(Tail(s)))

\* ------------------------------------------------------------ KFold.split
\* KFold(n_splits=k): the constructor's check
KFoldInit(k) == IF k <= 1 THEN "ValueError" ELSE "none"

\* fold_sizes = full(n // k); fold_sizes[:n % k] += 1
\* the remainder test off by one: fold 0 is longer even when k divides n
FoldSizeMutExtra(n, k, i) == (n \div k) + (IF i <= n % k THEN 1 ELSE 0)
FoldSize(n, k, i) == (n \div k) + (IF i < n % k THEN 1 ELSE 0)
\* current: the sum of the sizes of the folds before fold i (0-based)
FoldStart(n, k, i) == i * (n \div k) + Min(i, n % k)

\* indices[start:stop]
TestIndicesMutOverlap(n, k, i) ==
    [j \in 1 .. FoldSize(n, k, i) |-> Max(0, FoldStart(n, k, i) - 1) + (j - 1)]
\* every k-th index from i on instead of a slice
TestIndicesMutStrided(n, k, i) ==
    [j \in 1 .. FoldSize(n, k, i) |-> i + (j - 1) * k]
TestIndices(n, k, i) ==
    [j \in 1 .. FoldSize(n, k, i) |-> FoldStart(n, k, i) + (j - 1)]

\* indices[logical_not(test_mask)]
TrainIndicesMutAll(n, test) == [j \in 1 .. n |-> j - 1]
TrainIndices(n, test) ==
    SelectSeq([j \in 1 .. n |-> j - 1], LAMBDA x : x \notin Range(test))

\* cv.split(X) on n samples: the check of split, then one pair per fold
SplitCheckMutNoCheck(n, k) == "none"
SplitCheck(n, k) == IF k > n THEN "ValueError" ELSE "none"

KFoldSplit(n, k) ==
    [f \in 1 .. k |->
        LET test == TestIndices(n, k, f - 1)
        IN  [train |-> TrainIndices(n, test), test |-> test]]

\* ------------------------------------------------------------- np.reshape
\* The values of an array of samples in C order (last index fastest).
FlatRows(a) == Concat(a)
\* each image read column by column instead of row by row
FlatImagesMutF(a) ==
    Concat([i \in DOMAIN a |->
              Concat([c \in DOMAIN a[i][1] |->
                        [b \in DOMAIN a[i] |-> a[i][b][c]]])])
FlatImages(a) == Concat([i \in DOMAIN a |-> Concat(a[i])])

\* np.reshape(a, (-1, w)) on the C-order values of a: the row count is
\* inferred from the total size, which must be a multiple of w.
ReshapeRowsError(flat, w) ==
    IF Len(flat) % w # 0 THEN "ValueError" ELSE "none"
ReshapeRows(flat, w) ==
    [i \in 1 .. (Len(flat) \div w) |-> SubSeq(flat, (i - 1) * w + 1, i * w)]

\* v.reshape((h, w)) on a vector: the size must be exactly h * w.
ReshapeGridError(v, h, w) ==
    IF Len(v) # h * w THEN "ValueError" ELSE "none"
\* the same reshape filled column by column (order='F')
ReshapeGridMutF(v, h, w) ==
    [b \in 1 .. h |-> [c \in 1 .. w |-> v[(c - 1) * h + b]]]
ReshapeGrid(v, h, w) ==
    [b \in 1 .. h |-> [c \in 1 .. w |-> v[(b - 1) * w + c]]]

\* a.reshape((-1, h, w), order='F') on a 2-D array a of n rows of m values:
\* read and written with the first index changing fastest.
ReshapeImagesFError(a, h, w) ==
    IF (Len(a) * (IF a = <<>> THEN 0 ELSE Len(a[1]))) % (h * w) # 0
    THEN "ValueError" ELSE "none"
ReshapeImagesF(a, h, w) ==
    LET n == Len(a)
        m == IF a = <<>> THEN 0 ELSE Len(a[1])
        k == (n * m) \div (h * w)
        At(p) == a[(p % n) + 1][(p \div n) + 1]
    IN  [s \in 1 .. k |-> [b \in 1 .. h |-> [c \in 1 .. w |->
            At((s - 1) + k * (b - 1) + k * h * (c - 1))]]]

\* ---------------------------------------------------------------- r2_score
RMul(x, y) == Rat(x[1] * y[1], x[2] * y[2])
RDiv(x, y) == Rat(x[1] * y[2], x[2] * y[1])
RSq(x) == RMul(x, x)
RMean(s) == RDivInt(RSum(s), Len(s))

\* r2_score(y_true, y_pred) of one channel: y_true integers, y_pred rationals
R2Numerator(yt, yp) ==
    RSum([i \in DOMAIN yt |-> RSq(RSub(RInt(yt[i]), yp[i]))])
R2DenominatorMutUncentred(yt) ==
    RSum([i \in DOMAIN yt |-> RSq(RInt(yt[i]))])
\* ((y_true - average(y_true)) ** 2).sum()
R2Denominator(yt) ==
    RSum([i \in DOMAIN yt |->
            RSq(RSub(RInt(yt[i]), Rat(SumSeq(yt), Len(yt))))])
R2ScoreMutZeroVar(yt, yp) ==
    LET num == R2Numerator(yt, yp)
        den == R2Denominator(yt)
    IN  IF den[1] # 0 THEN RSub(RInt(1), RDiv(num, den)) ELSE RInt(0)
\* output_scores = ones; where both are nonzero 1 - numerator / denominator;
\* where only the denominator is zero 0.0
R2Score(yt, yp) ==
    LET num == R2Numerator(yt, yp)
        den == R2Denominator(yt)
    IN  IF num[1] # 0 /\ den[1] # 0 THEN RSub(RInt(1), RDiv(num, den))
        ELSE IF num[1] # 0 THEN RInt(0)
        ELSE RInt(1)

\* ------------------------------------------------------------------- state
VARIABLES
    pc,          \* the notebook cell to run next, "done" or "aborted"
    runLenF,     \* samples per fMRI run file
    runLenS,     \* rows per stimulus csv file
    sigSel,      \* which signal each channel (voxel) carries
    fitKind,     \* what the fitted model of each channel predicts
    n_splits,    \* KFold(n_splits=...)
    fmri_data,   \* list of runs, then samples x voxels
    stimuli,     \* list of runs of images, then samples x 10 x 10, then samples x 100
    folds,       \* list(cv.split(fmri_data))
    fold,        \* folds completed by the loop
    train,       \* loop variables of the cross-validation loop
    test,
    scores,      \* one raw R^2 vector per completed fold
    cut_score,   \* the reported score vector
    error,       \* the exception that ended the run, or "none"
    coef,        \* model.coef_ of the last receptive-field fit
    rf,          \* the last receptive field: coef_ as a 10 x 10 grid
    rf_done,     \* entries of voxels_to_fit handled so far
    kf,          \* stand-alone K-fold check: [n, k, pc, folds, err]
    rs           \* stand-alone reshape check: [pc, inp, len, out, err]

wfVars == <<pc, runLenF, runLenS, sigSel, fitKind, n_splits, fmri_data,
            stimuli, folds, fold, train, test, scores, cut_score, error,
            coef, rf, rf_done>>
vars == <<pc, runLenF, runLenS, sigSel, fitKind, n_splits, fmri_data,
          stimuli, folds, fold, train, test, scores, cut_score, error,
          coef, rf, rf_done, kf, rs>>

Unset == <<>>

\* ------------------------------------------------------------- input data
\* run lengths tried: the longest and the two below it; a run is at least
\* as long as the offset that is cut from it
RunLens == Max(Offset, MaxRunLen - 2) .. MaxRunLen
SigIds == 1 .. 3
FitKinds == {"exact", "trainmean", "shrunk"}

\* The response of a channel carrying signal s at sample t (1-based) of run r
SigVal(s, r, t) ==
    CASE s = 1 -> 1
      [] s = 2 -> 2 * (t % 2)
      [] s = 3 -> (r * t + 1) % 3

\* masker.transform: one samples x voxels array per run
MaskedRun(sel, r, len) ==
    [t \in 1 .. len |-> [c \in Chans |-> SigVal(sel[c], r, t)]]

\* The csv row of stimulus t of run r: one lit pixel that names (r, t)
CsvRow(r, t) ==
    [j \in 1 .. NPixels |-> IF j - 1 = StimCols * (r - 1) + t THEN 1 ELSE 0]
CsvFile(r, len) == [t \in 1 .. len |-> CsvRow(r, t)]

\* ------------------------------------------------------------ the notebook
\* stimuli = [read_csv(f).values.reshape((-1, 10, 10), order='F') for each run]
LoadStimuli ==
    /\ pc = "load"
    /\ LET bad == {r \in Runs : ReshapeImagesFError(CsvFile(r, runLenS[r]),
                                                    StimRows, StimCols) # "none"}
       IN  IF bad # {}
           THEN /\ error' = "ValueError"
                /\ pc' = "aborted"
                /\ UNCHANGED stimuli
           ELSE /\ stimuli' = [r \in Runs |->
                                 ReshapeImagesF(CsvFile(r, runLenS[r]),
                                                StimRows, StimCols)]
                /\ pc' = "align"
                /\ UNCHANGED error
    /\ UNCHANGED <<runLenF, runLenS, sigSel, fitKind, n_splits, fmri_data,
                   folds, fold, train, test, scores, cut_score,
                   coef, rf, rf_done, kf, rs>>

\* run[2:] and run[:-2]
DropFirstMutLast(run, k) == SubSeq(run, 1, Len(run) - k)
DropFirst(run, k) == SubSeq(run, k + 1, Len(run))
DropLastMutNone(run, k) == run
DropLast(run, k) == SubSeq(run, 1, Len(run) - k)

\* fmri_data = np.vstack([run[2:] ...]); stimuli = np.vstack([run[:-2] ...])
Align ==
    /\ pc = "align"
    /\ fmri_data' = Concat([r \in Runs |-> DropFirst(fmri_data[r], Offset)])
    /\ stimuli' = Concat([r \in Runs |-> DropLast(stimuli[r], Offset)])
    /\ pc' = "flatten"
    /\ UNCHANGED <<runLenF, runLenS, sigSel, fitKind, n_splits, folds, fold,
                   train, test, scores, cut_score, error,
                   coef, rf, rf_done, kf, rs>>

\* stimuli = np.reshape(stimuli, (-1, 10 * 10))
Flatten ==
    /\ pc = "flatten"
    /\ LET flat == FlatImages(stimuli)
       IN  IF ReshapeRowsError(flat, NPixels) # "none"
           THEN /\ error' = ReshapeRowsError(flat, NPixels)
                /\ pc' = "aborted"
                /\ UNCHANGED stimuli
           ELSE /\ stimuli' = ReshapeRows(flat, NPixels)
                /\ pc' = "cv_setup"
                /\ UNCHANGED error
    /\ UNCHANGED <<runLenF, runLenS, sigSel, fitKind, n_splits, fmri_data,
                   folds, fold, train, test, scores, cut_score,
                   coef, rf, rf_done, kf, rs>>

\* cv = KFold(n_splits); scores = []; list(cv.split(fmri_data))
CVSetup ==
    /\ pc = "cv_setup"
    /\ LET e1 == KFoldInit(n_splits)
           e2 == SplitCheck(Len(fmri_data), n_splits)
       IN  IF e1 # "none"
           THEN /\ error' = e1
                /\ pc' = "aborted"
                /\ UNCHANGED <<folds, scores>>
           ELSE IF e2 # "none"
           THEN /\ error' = e2
                /\ pc' = "aborted"
                /\ scores' = <<>>
                /\ UNCHANGED folds
           ELSE /\ folds' = KFoldSplit(Len(fmri_data), n_splits)
                /\ scores' = <<>>
                /\ pc' = "cv_loop"
                /\ UNCHANGED error
    /\ UNCHANGED <<runLenF, runLenS, sigSel, fitKind, n_splits, fmri_data,
                   stimuli, fold, train, test, cut_score,
                   coef, rf, rf_done, kf, rs>>

\* a[idx] with an index array: IndexError when an index is out of bounds
TakeError(a, idx) ==
    IF \E i \in DOMAIN idx : idx[i] >= Len(a) THEN "IndexError" ELSE "none"
Take(a, idx) == [i \in DOMAIN idx |-> a[idx[i] + 1]]
Column(a, c) == [i \in DOMAIN a |-> a[i][c]]

\* model.predict(X_test) of one channel, for a model fit on targets ytr
Predict(kind, ytr, yte) ==
    LET m == Rat(SumSeq(ytr), Len(ytr))
    IN  [i \in DOMAIN yte |->
            CASE kind = "exact" -> RInt(yte[i])
              [] kind = "trainmean" -> m
              [] kind = "shrunk" -> RDivInt(RAdd(RInt(yte[i]), m), 2)]

\* r2_score(..., multioutput='uniform_average') written to every channel
FoldScoresMutAverage(ytr, yte) ==
    [c \in Chans |->
        RMean([d \in 1 .. Cardinality(Chans) |->
                 R2Score(Column(yte, d),
                         Predict(fitKind[d], Column(ytr, d), Column(yte, d)))])]
\* a fit on the rows the loop variable train still names from the pass before
FoldScoresMutStale(ytr, yte) ==
    LET ytr0 == IF train = Unset THEN ytr ELSE Take(fmri_data, train)
    IN  [c \in Chans |->
            R2Score(Column(yte, c),
                    Predict(fitKind[c], Column(ytr0, c), Column(yte, c)))]
\* r2_score(y_test, predictions, multioutput='raw_values')
FoldScores(ytr, yte) ==
    [c \in Chans |->
        R2Score(Column(yte, c),
                Predict(fitKind[c], Column(ytr, c), Column(yte, c)))]

\* What the body of the loop raises before the model is fit
FoldIndexError(f) ==
    LET flat == FlatRows(stimuli)
        X == ReshapeRows(flat, NPixels)
    IN  IF ReshapeRowsError(flat, NPixels) # "none"
        THEN ReshapeRowsError(flat, NPixels)
        ELSE IF TakeError(X, f.train) # "none" THEN TakeError(X, f.train)
        ELSE IF TakeError(X, f.test) # "none" THEN TakeError(X, f.test)
        ELSE IF TakeError(fmri_data, f.train) # "none"
        THEN TakeError(fmri_data, f.train)
        ELSE TakeError(fmri_data, f.test)

\* One pass of: for train, test in list(cv.split(fmri_data)): ...
\*     scores.append(r2_score(...))
NextPc(done) == IF done = Len(folds) THEN "report" ELSE "cv_loop"

\* the same pass taking the folds from the end of the list
CVFoldMutReverse ==
    /\ pc = "cv_loop"
    /\ fold < Len(folds)
    /\ LET f == folds[Len(folds) - fold]
           e == FoldIndexError(f)
       IN  /\ train' = f.train
           /\ test' = f.test
           /\ IF e # "none"
              THEN /\ error' = e
                   /\ pc' = "aborted"
                   /\ UNCHANGED <<fold, scores>>
              ELSE /\ scores' = Append(scores,
                                       FoldScores(Take(fmri_data, f.train),
                                                  Take(fmri_data, f.test)))
                   /\ fold' = fold + 1
                   /\ pc' = NextPc(fold + 1)
                   /\ UNCHANGED error
    /\ UNCHANGED <<runLenF, runLenS, sigSel, fitKind, n_splits, fmri_data,
                   stimuli, folds, cut_score,
                   coef, rf, rf_done, kf, rs>>
CVFold ==
    /\ pc = "cv_loop"
    /\ fold < Len(folds)
    /\ LET f == folds[fold + 1]
           e == FoldIndexError(f)
       IN  /\ train' = f.train
           /\ test' = f.test
           /\ IF e # "none"
              THEN /\ error' = e
                   /\ pc' = "aborted"
                   /\ UNCHANGED <<fold, scores>>
              ELSE /\ scores' = Append(scores,
                                       FoldScores(Take(fmri_data, f.train),
                                                  Take(fmri_data, f.test)))
                   /\ fold' = fold + 1
                   /\ pc' = NextPc(fold + 1)
                   /\ UNCHANGED error
    /\ UNCHANGED <<runLenF, runLenS, sigSel, fitKind, n_splits, fmri_data,
                   stimuli, folds, cut_score,
                   coef, rf, rf_done, kf, rs>>

\* The same pass when Ridge.fit, predict or r2_score raises
CVFoldRaiseMutSkip ==
    /\ pc = "cv_loop"
    /\ fold < Len(folds)
    /\ FoldIndexError(folds[fold + 1]) = "none"
    /\ train' = folds[fold + 1].train
    /\ test' = folds[fold + 1].test
    /\ fold' = fold + 1
    /\ pc' = NextPc(fold + 1)
    /\ UNCHANGED <<runLenF, runLenS, sigSel, fitKind, n_splits, fmri_data,
                   stimuli, folds, scores, cut_score, error,
                   coef, rf, rf_done, kf, rs>>
CVFoldRaise ==
    /\ pc = "cv_loop"
    /\ fold < Len(folds)
    /\ FoldIndexError(folds[fold + 1]) = "none"
    /\ train' = folds[fold + 1].train
    /\ test' = folds[fold + 1].test
    /\ error' = "FitFailure"
    /\ pc' = "aborted"
    /\ UNCHANGED <<runLenF, runLenS, sigSel, fitKind, n_splits, fmri_data,
                   stimuli, folds, fold, scores, cut_score,
                   coef, rf, rf_done, kf, rs>>

\* np.mean(scores, axis=0)
MeanScoresMutClampFirst(sc) ==
    [c \in Chans |->
        RMean([i \in DOMAIN sc |->
                 IF RNeg(sc[i][c]) THEN RInt(0) ELSE sc[i][c]])]
MeanScores(sc) == [c \in Chans |-> RMean(Column(sc, c))]
\* v[v < 0] = 0
ClampMutNone(v) == v
Clamp(v) == [c \in DOMAIN v |-> IF RNeg(v[c]) THEN RInt(0) ELSE v[c]]

\* the clamp applied to the arrays of the list as well
ReportMutClampScores ==
    /\ pc = "report"
    /\ cut_score' = Clamp(MeanScores(scores))
    /\ scores' = [i \in DOMAIN scores |-> Clamp(scores[i])]
    /\ pc' = "rf"
    /\ UNCHANGED <<runLenF, runLenS, sigSel, fitKind, n_splits, fmri_data,
                   stimuli, folds, fold, train, test, error,
                   coef, rf, rf_done, kf, rs>>
\* cut_score = np.mean(scores, axis=0); cut_score[cut_score < 0] = 0
Report ==
    /\ pc = "report"
    /\ cut_score' = Clamp(MeanScores(scores))
    /\ pc' = "rf"
    /\ UNCHANGED <<runLenF, runLenS, sigSel, fitKind, n_splits, fmri_data,
                   stimuli, folds, fold, train, test, scores, error,
                   coef, rf, rf_done, kf, rs>>

\* voxels_to_fit: the channels whose receptive field is estimated
voxels_to_fit == <<2, 1>>

\* model.coef_ after model.fit(X, y): one coefficient per column of X, the
\* k-th one computed from column k of X and y (here their inner product)
FitCoef(X, y) ==
    [k \in DOMAIN X[1] |-> SumSeq([i \in DOMAIN X |-> X[i][k] * y[i]])]

\* a fit that centres its target in place, through the view fmri_data[:, index]
RFFitMutInPlace ==
    /\ pc = "rf"
    /\ rf_done < Len(voxels_to_fit)
    /\ Len(stimuli) = Len(fmri_data)
    /\ LET index == voxels_to_fit[rf_done + 1]
           y == Column(fmri_data, index)
       IN  /\ coef' = FitCoef(stimuli, y)
           /\ rf' = ReshapeGrid(coef', StimRows, StimCols)
           /\ fmri_data' = [i \in DOMAIN fmri_data |->
                               [fmri_data[i] EXCEPT ![index] = @ - y[1]]]
    /\ rf_done' = rf_done + 1
    /\ pc' = IF rf_done + 1 = Len(voxels_to_fit) THEN "done" ELSE "rf"
    /\ UNCHANGED <<runLenF, runLenS, sigSel, fitKind, n_splits, stimuli, folds,
                   fold, train, test, scores, cut_score, error, kf, rs>>
\* One pass of: for i, index in enumerate(voxels_to_fit):
\*     y = fmri_data[:, index]; model.fit(stimuli, y)
\*     rf = model.coef_.reshape((10, 10))
RFFit ==
    /\ pc = "rf"
    /\ rf_done < Len(voxels_to_fit)
    /\ LET y == Column(fmri_data, voxels_to_fit[rf_done + 1])
           c == FitCoef(stimuli, y)
       IN  IF Len(stimuli) # Len(y)
           THEN /\ error' = "ValueError"
                /\ pc' = "aborted"
                /\ UNCHANGED <<coef, rf, rf_done>>
           ELSE IF ReshapeGridError(c, StimRows, StimCols) # "none"
           THEN /\ coef' = c
                /\ error' = ReshapeGridError(c, StimRows, StimCols)
                /\ pc' = "aborted"
                /\ UNCHANGED <<rf, rf_done>>
           ELSE /\ coef' = c
                /\ rf' = ReshapeGrid(c, StimRows, StimCols)
                /\ rf_done' = rf_done + 1
                /\ pc' = IF rf_done + 1 = Len(voxels_to_fit)
                         THEN "done" ELSE "rf"
                /\ UNCHANGED error
    /\ UNCHANGED <<runLenF, runLenS, sigSel, fitKind, n_splits, fmri_data,
                   stimuli, folds, fold, train, test, scores, cut_score,
                   kf, rs>>

KfIdle == [n |-> 0, k |-> 0, pc |-> "off", folds |-> <<>>, i |-> 0,
           train |-> <<>>, test |-> <<>>, err |-> "none"]
RsIdle == [pc |-> "off", inp |-> <<>>, out |-> <<>>, err |-> "none"]

Init ==
    /\ pc = "load"
    /\ runLenF \in [Runs -> RunLens]
    /\ runLenS \in {l \in [Runs -> RunLens] :
                       /\ Abs(l[1] - runLenF[1]) <= 1
                       /\ \A r \in Runs \ {1} : l[r] = runLenF[r]}
    /\ sigSel \in [Chans -> SigIds]
    /\ fitKind \in [Chans -> FitKinds]
    /\ n_splits \in 0 .. MaxSplits
    /\ fmri_data = [r \in Runs |-> MaskedRun(sigSel, r, runLenF[r])]
    /\ stimuli = Unset
    /\ folds = Unset
    /\ fold = 0
    /\ train = Unset
    /\ test = Unset
    /\ scores = Unset
    /\ cut_score = Unset
    /\ error = "none"
    /\ coef = Unset
    /\ rf = Unset
    /\ rf_done = 0
    /\ kf = KfIdle
    /\ rs = RsIdle

Next ==
    \/ LoadStimuli
    \/ Align
    \/ Flatten
    \/ CVSetup
    \/ CVFold
    \/ CVFoldRaise
    \/ Report
    \/ RFFit

Spec == Init /\ [][Next]_vars

\* ------------------------------------- the loop with its folds in any order
\* the orders in which n folds can be handled
Orders(n) == {p \in [1 .. n -> 1 .. n] : \A i, j \in 1 .. n : i # j => p[i] # p[j]}

\* cv = KFold(n_splits); scores = []; the folds of list(cv.split(fmri_data))
\* handed to the loop body in some order
CVSetupAnyOrder ==
    /\ pc = "cv_setup"
    /\ LET e1 == KFoldInit(n_splits)
           e2 == SplitCheck(Len(fmri_data), n_splits)
       IN  IF e1 # "none"
           THEN /\ error' = e1
                /\ pc' = "aborted"
                /\ UNCHANGED <<folds, scores>>
           ELSE IF e2 # "none"
           THEN /\ error' = e2
                /\ pc' = "aborted"
                /\ scores' = <<>>
                /\ UNCHANGED folds
           ELSE /\ \E p \in Orders(n_splits) :
                     folds' = [i \in 1 .. n_splits |->
                                  KFoldSplit(Len(fmri_data), n_splits)[p[i]]]
                /\ scores' = <<>>
                /\ pc' = "cv_loop"
                /\ UNCHANGED error
    /\ UNCHANGED <<runLenF, runLenS, sigSel, fitKind, n_splits, fmri_data,
                   stimuli, fold, train, test, cut_score,
                   coef, rf, rf_done, kf, rs>>

\* runs of the two longest lengths whose stimulus files are as long as
\* their fMRI runs and whose channels are fit alike
InitAnyOrder ==
    /\ Init
    /\ runLenS = runLenF
    /\ \A r \in Runs : runLenF[r] >= MaxRunLen - 1
    /\ \A c, d \in Chans : fitKind[c] = fitKind[d]

NextAnyOrder ==
    \/ LoadStimuli
    \/ Align
    \/ Flatten
    \/ CVSetupAnyOrder
    \/ CVFold
    \/ CVFoldRaise
    \/ Report
    \/ RFFit

SpecAnyOrder == InitAnyOrder /\ [][NextAnyOrder]_vars

\* --------------------------------------------- K-fold split on its own
\* cv = KFold(n_splits=k)
KFConstruct ==
    /\ kf.pc = "new"
    /\ kf' = IF KFoldInit(kf.k) # "none"
             THEN [kf EXCEPT !.pc = "failed", !.err = KFoldInit(kf.k)]
             ELSE [kf EXCEPT !.pc = "made"]
    /\ UNCHANGED wfVars
    /\ UNCHANGED rs

\* list(cv.split(X)) for X of n samples
KFSplit ==
    /\ kf.pc = "made"
    /\ kf' = IF SplitCheck(kf.n, kf.k) # "none"
             THEN [kf EXCEPT !.pc = "failed", !.err = SplitCheck(kf.n, kf.k)]
             ELSE [kf EXCEPT !.pc = "split", !.folds = KFoldSplit(kf.n, kf.k)]
    /\ UNCHANGED wfVars
    /\ UNCHANGED rs

\* for train, test in <the list>: the next pair
KFIterate ==
    /\ kf.pc = "split"
    /\ kf.i < Len(kf.folds)
    /\ kf' = [kf EXCEPT !.i = @ + 1,
                        !.train = kf.folds[kf.i + 1].train,
                        !.test = kf.folds[kf.i + 1].test]
    /\ UNCHANGED wfVars
    /\ UNCHANGED rs

WfIdle ==
    /\ pc = "off"
    /\ runLenF = Unset /\ runLenS = Unset /\ sigSel = Unset /\ fitKind = Unset
    /\ n_splits = 0 /\ fmri_data = Unset /\ stimuli = Unset /\ folds = Unset
    /\ fold = 0 /\ train = Unset /\ test = Unset /\ scores = Unset
    /\ cut_score = Unset /\ error = "none"
    /\ coef = Unset /\ rf = Unset /\ rf_done = 0

InitKFold ==
    /\ WfIdle
    /\ rs = RsIdle
    /\ \E n \in 0 .. MaxN, k \in 0 .. MaxK :
          kf = [KfIdle EXCEPT !.n = n, !.k = k, !.pc = "new"]

NextKFold == KFConstruct \/ KFSplit \/ KFIterate

SpecKFold == InitKFold /\ [][NextKFold]_vars

\* ------------------------------------------------- reshapes on their own
\* values per sample of the arrays tried
SampleLens == {1, 10, 20, 25, 50, 99, 100, 101, 200}
\* an array of n samples of len values, each value naming its place
TaggedArray(n, len) == [i \in 1 .. n |-> [j \in 1 .. len |-> 1000 * i + j]]

\* np.reshape(a, (-1, 100)), as for the stimuli
RSRows ==
    /\ rs.pc = "in"
    /\ LET flat == FlatRows(rs.inp)
       IN  rs' = IF ReshapeRowsError(flat, NPixels) # "none"
                 THEN [rs EXCEPT !.pc = "rows",
                                 !.err = ReshapeRowsError(flat, NPixels)]
                 ELSE [rs EXCEPT !.pc = "rows",
                                 !.out = ReshapeRows(flat, NPixels)]
    /\ UNCHANGED wfVars
    /\ UNCHANGED kf

\* v.reshape((10, 10)), as for model.coef_: v is the first sample
RSGrid ==
    /\ rs.pc = "in"
    /\ LET v == rs.inp[1]
       IN  rs' = IF ReshapeGridError(v, StimRows, StimCols) # "none"
                 THEN [rs EXCEPT !.pc = "grid",
                                 !.err = ReshapeGridError(v, StimRows, StimCols)]
                 ELSE [rs EXCEPT !.pc = "grid",
                                 !.out = ReshapeGrid(v, StimRows, StimCols)]
    /\ UNCHANGED wfVars
    /\ UNCHANGED kf

\* X = stimuli.reshape(-1, 100) in the loop: a reshape of the flattened rows
RSRowsAgain ==
    /\ rs.pc = "rows"
    /\ rs.err = "none"
    /\ LET flat == FlatRows(rs.out)
       IN  rs' = IF ReshapeRowsError(flat, NPixels) # "none"
                 THEN [rs EXCEPT !.pc = "rows2",
                                 !.err = ReshapeRowsError(flat, NPixels)]
                 ELSE [rs EXCEPT !.pc = "rows2",
                                 !.out = ReshapeRows(flat, NPixels)]
    /\ UNCHANGED wfVars
    /\ UNCHANGED kf

\* np.reshape(a, (-1, 100)) of one 10 x 10 grid: its values as one row
RSRavel ==
    /\ rs.pc = "grid"
    /\ rs.err = "none"
    /\ rs' = [rs EXCEPT !.pc = "flat",
                        !.out = ReshapeRows(FlatImages(<<rs.out>>), NPixels)]
    /\ UNCHANGED wfVars
    /\ UNCHANGED kf

InitReshape ==
    /\ WfIdle
    /\ kf = KfIdle
    /\ \E n \in 1 .. MaxSamples, len \in SampleLens :
          rs = [RsIdle EXCEPT !.pc = "in", !.inp = TaggedArray(n, len)]

NextReshape == RSRows \/ RSGrid \/ RSRowsAgain \/ RSRavel

SpecReshape == InitReshape /\ [][NextReshape]_vars

\* ================================================================ claims
AllIndices(n) == 0 .. (n - 1)
KfValid == 2 <= kf.k /\ kf.k <= kf.n
KfTestSet(f) == Range(kf.folds[f].test)
KfTrainSet(f) == Range(kf.folds[f].train)

\* C1: for 2 <= K <= N the split yields K test sets that are pairwise
\* disjoint and whose union is 0..N-1: every index is a test index of
\* exactly one fold (and no test array lists an index twice).
C1_TestSetsPartition ==
    (kf.pc = "split" /\ KfValid) =>
        /\ kf.err = "none"
        /\ Len(kf.folds) = kf.k
        /\ \A f, g \in 1 .. kf.k : f # g => KfTestSet(f) \cap KfTestSet(g) = {}
        /\ UNION {KfTestSet(f) : f \in 1 .. kf.k} = AllIndices(kf.n)
        /\ \A x \in AllIndices(kf.n) :
              Cardinality({f \in 1 .. kf.k : x \in KfTestSet(f)}) = 1
        /\ \A f \in 1 .. kf.k :
              Cardinality(KfTestSet(f)) = Len(kf.folds[f].test)

C1_Witness ==
    /\ kf.pc = "split"
    /\ kf.n = 20 /\ kf.k = 3
    /\ Len(kf.folds) = 3
    /\ kf.folds[1].test = <<0, 1, 2, 3, 4, 5, 6>>

\* C2: in every fold the train indices are exactly the indices of 0..N-1
\* that are not test indices of that fold, and the pair the loop is handed
\* never has a row in both train and test.
C2_TrainIsComplement ==
    (kf.pc = "split") =>
        /\ \A f \in 1 .. Len(kf.folds) :
              /\ KfTrainSet(f) \cap KfTestSet(f) = {}
              /\ KfTrainSet(f) \cup KfTestSet(f) = AllIndices(kf.n)
              /\ KfTrainSet(f) = AllIndices(kf.n) \ KfTestSet(f)
              /\ Cardinality(KfTrainSet(f)) = Len(kf.folds[f].train)
        /\ kf.i > 0 =>
              /\ Range(kf.train) \cap Range(kf.test) = {}
              /\ Range(kf.train) \cup Range(kf.test) = AllIndices(kf.n)
              /\ kf.test = kf.folds[kf.i].test

C2_Witness ==
    /\ kf.pc = "split"
    /\ kf.n = 7 /\ kf.k = 3 /\ kf.i = 2
    /\ kf.test = <<3, 4>>
    /\ kf.train = <<0, 1, 2, 5, 6>>

\* C3: with K > N or K < 2 the request fails with the library's
\* configuration error (ValueError) and no (train, test) pair is produced:
\* the constructor rejects K < 2, split rejects K > N, and the loop is
\* never handed a pair.
C3_InvalidConfigFails ==
    (~KfValid) =>
        /\ kf.folds = <<>>
        /\ kf.i = 0 /\ kf.train = <<>> /\ kf.test = <<>>
        /\ kf.pc \in {"off", "new", "made", "failed"}
        /\ (kf.pc = "made") => (kf.k >= 2 /\ ENABLED KFSplit)
        /\ (kf.pc = "new") => ENABLED KFConstruct
        /\ (kf.pc = "failed") => kf.err = "ValueError"

C3_Witness ==
    /\ kf.pc = "failed" /\ kf.err = "ValueError"
    /\ kf.k = 5 /\ kf.n = 4
    /\ kf.folds = <<>>

\* ----- the workflow
Aligned == pc \in {"flatten", "cv_setup", "cv_loop", "report", "rf", "done"}
           \/ (pc = "aborted" /\ stimuli # Unset)
Flattened == pc \in {"cv_setup", "cv_loop", "report", "rf", "done"}
             \/ (pc = "aborted" /\ stimuli # Unset)
SameRunLengths == \A r \in Runs : runLenS[r] = runLenF[r]
Zero == <<0, 1>>
One == <<1, 1>>

\* targets and predictions of completed fold i (1-based), channel c
FoldYTrain(i, c) == Column(Take(fmri_data, folds[i].train), c)
FoldYTest(i, c) == Column(Take(fmri_data, folds[i].test), c)
FoldPred(i, c) == Predict(fitKind[c], FoldYTrain(i, c), FoldYTest(i, c))
TotalScore(c) == RSum(Column(scores, c))

\* C4: the reported score of channel j is max(0, m_j), m_j the plain mean
\* over all K folds of the raw R^2 of channel j: negative fold scores enter
\* the mean as they are and only the mean is clamped.
C4_ReportedIsClampedMean ==
    (cut_score # Unset) =>
        /\ Len(scores) = n_splits
        /\ \A c \in Chans :
              IF TotalScore(c)[1] < 0
              THEN cut_score[c] = Zero
              ELSE RMul(cut_score[c], RInt(n_splits)) = TotalScore(c)

\* a channel with a negative fold score whose mean is still positive
C4_Witness ==
    /\ pc = "done"
    /\ \E c \in Chans :
          /\ \E i \in DOMAIN scores : scores[i][c][1] < 0
          /\ TotalScore(c)[1] > 0
          /\ cut_score[c][1] > 0

\* C5: after reporting no entry of cut_score is negative, whatever the raw
\* fold scores were, and an entry whose mean is >= 0 equals that mean.
C5_NoNegativeReported ==
    (cut_score # Unset) =>
        \A c \in Chans :
            /\ cut_score[c][1] >= 0
            /\ cut_score[c][2] > 0
            /\ (~RNeg(TotalScore(c))) =>
                  cut_score[c] = RDivInt(TotalScore(c), Len(scores))

\* one channel with a negative mean next to one with a positive mean
C5_Witness ==
    /\ pc = "done"
    /\ \E c, d \in Chans :
          /\ TotalScore(c)[1] < 0 /\ cut_score[c] = Zero
          /\ TotalScore(d)[1] > 0 /\ cut_score[d][1] > 0

\* C6: when every run has as many stimulus rows as fMRI rows, the aligned
\* stimuli and responses have the same number of rows (each run gives its
\* length minus 2), and flattening to 100 features keeps the row count.
C6_RowCountsMatch ==
    (SameRunLengths /\ Aligned) =>
        /\ Len(stimuli) = Len(fmri_data)
        /\ Len(fmri_data) = SumSeq([r \in Runs |-> runLenF[r] - Offset])
        /\ Flattened => \A i \in DOMAIN stimuli : Len(stimuli[i]) = NPixels

C6_Witness ==
    /\ pc = "cv_setup"
    /\ runLenF = <<3, 4>> /\ runLenS = <<3, 4>>
    /\ Len(stimuli) = 3 /\ Len(fmri_data) = 3
    /\ Len(stimuli[3]) = NPixels

\* C7: with different row counts in stimuli and responses the workflow
\* raises before any fold is fit and appends no score, whether the stimuli
\* have fewer rows or more.
C7_MismatchRaises ==
    (Flattened /\ pc # "cv_setup" /\ Len(stimuli) # Len(fmri_data)) =>
        /\ pc \notin {"report", "rf", "done"}
        /\ fold = 0
        /\ scores \in {Unset, <<>>}

\* C8: an exception in a fold ends the run there: the fold is not counted,
\* its score is not appended, no aggregate is computed, and nothing runs
\* after the run has aborted.
C8_FoldFailureAborts ==
    [][/\ pc # "aborted"
       /\ (pc = "cv_loop") =>
             \/ /\ error' = "none"
                /\ fold' = fold + 1
                /\ Len(scores') = fold'
             \/ /\ error' # "none"
                /\ pc' = "aborted"
                /\ fold' = fold
                /\ scores' = scores
       /\ (error' # "none") => pc' = "aborted"
       /\ (error' # "none" /\ pc # "rf") => cut_score' = Unset
       /\ (cut_score' # cut_score) =>
             (error' = "none" /\ Len(scores) = Len(folds))]_vars

\* a failure in a later fold, with scores of earlier folds already there
C8_Witness ==
    /\ pc = "aborted" /\ error = "FitFailure"
    /\ fold >= 1 /\ Len(scores) = fold
    /\ fold < Len(folds)
    /\ cut_score = Unset

\* C9 as written: a reshape step handed samples whose length is not 100
\* raises; none regroups the values of several samples into rows of 100.
C9_Claim ==
    (rs.pc \in {"rows", "rows2", "grid"} /\ Len(rs.inp[1]) # NPixels) =>
        /\ rs.err # "none"
        /\ rs.out = <<>>

PredIsExact(i, c) ==
    \A j \in DOMAIN FoldPred(i, c) :
        FoldPred(i, c)[j] = RInt(FoldYTest(i, c)[j])
PredIsTrainMean(i, c) ==
    \A j \in DOMAIN FoldPred(i, c) :
        FoldPred(i, c)[j] =
            Rat(SumSeq(FoldYTrain(i, c)), Len(FoldYTrain(i, c)))

\* C10 as written: R^2 is 1 when the predictions equal the held-out
\* targets, and 0 when every prediction equals the mean of the training
\* targets (read with the first case taking precedence where both apply).
C10_Claim ==
    (pc \in {"cv_loop", "report", "rf", "done"}) =>
        \A i \in 1 .. fold : \A c \in Chans :
            /\ PredIsExact(i, c) => scores[i][c] = One
            /\ (PredIsTrainMean(i, c) /\ ~PredIsExact(i, c))
               => scores[i][c] = Zero

PredIsTestMean(i, c) ==
    \A j \in DOMAIN FoldPred(i, c) :
        FoldPred(i, c)[j] = Rat(SumSeq(FoldYTest(i, c)), Len(FoldYTest(i, c)))
TestConstant(i, c) ==
    \A j, k \in DOMAIN FoldYTest(i, c) : FoldYTest(i, c)[j] = FoldYTest(i, c)[k]

\* C10 amended: R^2 is 1 when the predictions equal the held-out targets,
\* and 0 when every prediction equals the mean of the held-out targets and
\* those targets are not all equal.
C10_R2Anchors ==
    (pc \in {"cv_loop", "report", "rf", "done"}) =>
        \A i \in 1 .. fold : \A c \in Chans :
            /\ PredIsExact(i, c) => scores[i][c] = One
            /\ (PredIsTestMean(i, c) /\ ~TestConstant(i, c))
               => scores[i][c] = Zero

\* both anchors in one run: an exact channel and a mean-predicting one
C10_Witness ==
    /\ pc = "done"
    /\ \E i \in 1 .. fold : \E c, d \in Chans :
          /\ PredIsTestMean(i, c) /\ ~TestConstant(i, c)
          /\ scores[i][c] = Zero
          /\ fitKind[d] = "exact" /\ ~TestConstant(i, d)
          /\ scores[i][d] = One

\* C11 as written: a channel whose held-out targets are all equal in a fold
\* scores 0 in that fold, whatever the predictions are, exact ones included.
C11_Claim ==
    (pc \in {"cv_loop", "report", "rf", "done"}) =>
        \A i \in 1 .. fold : \A c \in Chans :
            TestConstant(i, c) => scores[i][c] = Zero

\* C11 amended: a channel whose held-out targets are all equal in a fold
\* scores 1 in that fold when every prediction equals that constant and 0
\* when any prediction differs from it; the score is always a finite number.
C11_ConstantTargetScore ==
    (pc \in {"cv_loop", "report", "rf", "done"}) =>
        \A i \in 1 .. fold : \A c \in Chans :
            TestConstant(i, c) =>
                /\ scores[i][c][2] > 0
                /\ PredIsExact(i, c) => scores[i][c] = One
                /\ (~PredIsExact(i, c)) => scores[i][c] = Zero

\* one fold with two constant channels of at least two held-out samples:
\* one predicted exactly, the other not
C11_Witness ==
    /\ pc = "done"
    /\ \E i \in 1 .. fold : \E c, d \in Chans :
          /\ Len(folds[i].test) >= 2
          /\ TestConstant(i, c) /\ PredIsExact(i, c) /\ scores[i][c] = One
          /\ TestConstant(i, d) /\ ~PredIsExact(i, d) /\ scores[i][d] = Zero

\* the aligned matrices, computed from the inputs of the run
AlignedResponses ==
    Concat([r \in Runs |->
              DropFirst(MaskedRun(sigSel, r, runLenF[r]), Offset)])
AlignedStimuli ==
    ReshapeRows(
        FlatImages(Concat([r \in Runs |->
            DropLast(ReshapeImagesF(CsvFile(r, runLenS[r]), StimRows, StimCols),
                     Offset)])),
        NPixels)

\* C15: from the start of the cross-validation on, no step (splitting, a
\* fold of the loop, the mean and clamp, a receptive-field fit) changes
\* stimuli or fmri_data: both keep their values and their shape.
C15_InputsReadOnly ==
    [][(pc \in {"cv_setup", "cv_loop", "report", "rf"}) =>
           (stimuli' = stimuli /\ fmri_data' = fmri_data)]_vars

\* all three steps have run and both matrices are the aligned ones
C15_Witness ==
    /\ pc = "done"
    /\ fold = 3 /\ Len(scores) = 3
    /\ cut_score # Unset
    /\ rf_done = Len(voxels_to_fit)
    /\ Len(fmri_data) = 4
    /\ fmri_data = AlignedResponses
    /\ stimuli = AlignedStimuli
    /\ \E i \in DOMAIN fmri_data : fmri_data[i][1] # fmri_data[1][1]

\* the aligned responses of channel c alone: a function of the signal the
\* channel carries and of the run lengths, of no other channel
ChanColumn(c) ==
    Concat([r \in Runs |->
              [t \in 1 .. (runLenF[r] - Offset) |->
                  SigVal(sigSel[c], r, t + Offset)]])
\* the R^2 of fold i computed from channel c alone
ChanScore(i, c) ==
    LET col == ChanColumn(c)
        ytr == Take(col, folds[i].train)
        yte == Take(col, folds[i].test)
    IN  R2Score(yte, Predict(fitKind[c], ytr, yte))
ChanAggregate(c) ==
    LET m == RMean([i \in 1 .. Len(folds) |-> ChanScore(i, c)])
    IN  IF RNeg(m) THEN Zero ELSE m

\* C12: every fold's score vector has one entry per response column, and
\* the fold scores and the reported score of channel j are what channel j's
\* own column, its own fit and the fold indices give: they are the same
\* whatever the other channels carry.
C12_ChannelsIndependent ==
    /\ \A i \in 1 .. fold :
          /\ DOMAIN scores[i] = Chans
          /\ Chans = DOMAIN fmri_data[1]
    /\ (cut_score # Unset) => (DOMAIN cut_score = Chans /\ fold = Len(folds))
    /\ \A c \in Chans :
          LET own == [i \in 1 .. fold |-> ChanScore(i, c)]
              m == RMean(own)
          IN  /\ \A i \in 1 .. fold : scores[i][c] = own[i]
              /\ (cut_score # Unset) =>
                    cut_score[c] = (IF RNeg(m) THEN Zero ELSE m)

\* a finished run whose two channels carry different signals and differ in
\* a fold score and in the reported score
C12_Witness ==
    /\ pc = "done"
    /\ sigSel[1] # sigSel[2]
    /\ \E i \in 1 .. fold : scores[i][1] # scores[i][2]
    /\ cut_score[1] # cut_score[2]
    /\ cut_score[1] = ChanAggregate(1)

\* fold j (1-based) of the split in the order KFold yields it, and the raw
\* scores a pass over that fold alone gives
SeqFold(j) ==
    LET t == TestIndices(Len(fmri_data), n_splits, j - 1)
    IN  [train |-> TrainIndices(Len(fmri_data), t), test |-> t]
SeqScores(j) ==
    LET f == SeqFold(j)
    IN  [c \in Chans |->
            LET ytr == Column(Take(fmri_data, f.train), c)
                yte == Column(Take(fmri_data, f.test), c)
            IN  R2Score(yte, Predict(fitKind[c], ytr, yte))]
SeqAggregate ==
    [c \in Chans |->
        LET m == RMean([j \in 1 .. n_splits |-> SeqScores(j)[c]])
        IN  IF RNeg(m) THEN Zero ELSE m]

C16_ReshapeRoundTrip ==
    (rs.pc = "flat") =>
        /\ rs.err = "none"
        /\ Len(rs.inp[1]) = NPixels
        /\ Len(rs.out) = 1
        /\ Len(rs.out[1]) = NPixels
        /\ \A j \in 1 .. NPixels : rs.out[1][j] = rs.inp[1][j]

\* the round trip done on a vector whose 100 values all differ
C16_Witness ==
    /\ rs.pc = "flat"
    /\ Len(rs.inp[1]) = NPixels
    /\ \A j, k \in 1 .. NPixels : j # k => rs.inp[1][j] # rs.inp[1][k]
    /\ rs.out[1][12] = rs.inp[1][12]
    /\ rs.out[1][91] = 1091

\* C17: when K divides N, every fold has exactly N / K test indices and
\* N - N / K train indices, and the K test sets are pairwise disjoint and
\* together are 0..N-1.
C17_EvenFolds ==
    (kf.pc = "split" /\ kf.n % kf.k = 0) =>
        /\ Len(kf.folds) = kf.k
        /\ \A f \in 1 .. kf.k :
              /\ Len(kf.folds[f].test) = kf.n \div kf.k
              /\ Cardinality(KfTestSet(f)) = kf.n \div kf.k
              /\ Len(kf.folds[f].train) = kf.n - (kf.n \div kf.k)
              /\ Cardinality(KfTrainSet(f)) = kf.n - (kf.n \div kf.k)
        /\ \A f, g \in 1 .. kf.k : f # g => KfTestSet(f) \cap KfTestSet(g) = {}
        /\ UNION {KfTestSet(f) : f \in 1 .. kf.k} = AllIndices(kf.n)

\* N = 20, K = 10: 2 test and 18 train indices in the first and last fold
C17_Witness ==
    /\ kf.pc = "split"
    /\ kf.n = 20 /\ kf.k = 10
    /\ Len(kf.folds) = 10
    /\ kf.folds[1].test = <<0, 1>>
    /\ Len(kf.folds[1].train) = 18
    /\ kf.folds[10].test = <<18, 19>>
    /\ Len(kf.folds[10].train) = 18

\* the images of the aligned samples as the notebook displays them
\* (stimuli[run][stimulus] of the loaded arrays), in row order
AlignedImages ==
    Concat([r \in Runs |->
              DropLast(ReshapeImagesF(CsvFile(r, runLenS[r]), StimRows, StimCols),
                       Offset)])
\* the response column of the receptive field computed last
LastVoxel == Column(fmri_data, voxels_to_fit[rf_done])

\* C18: the receptive field puts at (r, c) the coefficient of the feature
\* that holds pixel (r, c) of the displayed stimulus images, for all r and
\* c: the flatten to 100 features and the reshape of the coefficients to
\* 10 x 10 use the same pixel order.
C18_LayoutConsistent ==
    (rf_done >= 1) =>
        LET imgs == AlignedImages
            y == LastVoxel
        IN  \A b \in 1 .. StimRows : \A c \in 1 .. StimCols :
                LET k == (b - 1) * StimCols + c
                IN  /\ rf[b][c] = coef[k]
                    /\ \A i \in DOMAIN stimuli :
                          stimuli[i][k] = imgs[i][b][c]
                    /\ rf[b][c] = SumSeq([i \in DOMAIN stimuli |->
                                            imgs[i][b][c] * y[i]])

\* a receptive field that is not symmetric: a pixel lit in some image that
\* drives the response, its mirror pixel not
C18_Witness ==
    /\ rf_done >= 1
    /\ LET imgs == AlignedImages
       IN  \E b \in 1 .. StimRows : \E c \in 1 .. StimCols :
               /\ b # c
               /\ rf[b][c] # 0
               /\ rf[c][b] = 0
               /\ \E i \in DOMAIN stimuli : imgs[i][b][c] = 1

\* the row of the aligned matrices that holds sample t (1-based) of run r
RowOf(r, t) == SumSeq([q \in 1 .. (r - 1) |-> runLenF[q] - Offset]) + t
\* stimulus t of run r as loaded, and as one row of 100 features
LoadedImage(r, t) ==
    ReshapeImagesF(CsvFile(r, runLenS[r]), StimRows, StimCols)[t]
\* the same stimulus loaded from its csv row alone
LoadedOne(r, t) == ReshapeImagesF(<<CsvRow(r, t)>>, StimRows, StimCols)[1]
\* row i of the aligned stimuli as an image
StimulusOfRow(i) ==
    IF pc = "flatten" THEN stimuli[i]
    ELSE [b \in 1 .. StimRows |->
             SubSeq(stimuli[i], (b - 1) * StimCols + 1, b * StimCols)]

\* C19: for runs of equal stimulus and fMRI length L, what the alignment
\* hands on (before and after the flatten) pairs, in one row, stimulus t of
\* a run with the response t + 2 of the same run, for every t with t + 2
\* inside the run: each run gives L - 2 rows, the runs follow one another
\* in file order, and no row mixes two runs.
C19_AlignmentPairs ==
    (SameRunLengths /\ pc \in {"flatten", "cv_setup"}) =>
        /\ Len(fmri_data) = SumSeq([r \in Runs |-> runLenF[r] - Offset])
        /\ Len(stimuli) = Len(fmri_data)
        /\ \A r \in Runs :
              LET masked == MaskedRun(sigSel, r, runLenF[r])
                  first == RowOf(r, 1)
              IN  \A t \in 1 .. (runLenF[r] - Offset) :
                      LET i == first + t - 1
                      IN  /\ i \in DOMAIN fmri_data
                          /\ fmri_data[i] = masked[t + Offset]
                          /\ StimulusOfRow(i) = LoadedOne(r, t)

\* the first row of the second run, right after the two rows of the first:
\* stimulus 1 of run 2 with response 3 of run 2, which differs from
\* response 1 of that run
C19_Witness ==
    /\ pc = "cv_setup"
    /\ runLenF = <<4, 3>> /\ runLenS = <<4, 3>>
    /\ sigSel[1] = 3
    /\ Len(fmri_data) = 3 /\ Len(stimuli) = 3
    /\ RowOf(2, 1) = 3
    /\ fmri_data[3][1] = SigVal(3, 2, 3)
    /\ fmri_data[3][1] # SigVal(3, 2, 1)
    /\ stimuli[3] = Concat(LoadedImage(2, 1))
    /\ stimuli[3] # stimuli[1]

\* C20: computing cut_score as the mean of scores and clamping cut_score in
\* place leaves the list scores as it was: same length, and every entry,
\* negative ones included, keeps its value.
C20_ScoresKept ==
    [][(pc = "report") =>
           /\ cut_score' # Unset
           /\ Len(scores') = Len(scores)
           /\ \A i \in DOMAIN scores : \A c \in Chans :
                 scores'[i][c] = scores[i][c]]_vars

\* after the clamp: a reported 0 for a channel whose list still holds the
\* negative fold scores
C20_Witness ==
    /\ cut_score # Unset
    /\ Len(scores) = 3
    /\ \E c \in Chans :
          /\ cut_score[c] = Zero
          /\ TotalScore(c)[1] < 0
          /\ \E i \in DOMAIN scores :
                /\ scores[i][c][1] < 0
                /\ scores[i][c] = ChanScore(i, c)

\* C21: the loop takes the folds one after the other in the order of the
\* split and fits and scores each once: a pass either ends the run or
\* hands the loop the next fold and appends that fold's score vector, no
\* other step touches the count or the list, and after every step scores
\* holds one vector per completed fold in fold order (K of them at the end).
C21_SequentialOnce ==
    [][/\ Len(scores') = fold'
       /\ \A i \in 1 .. fold' :
             /\ folds'[i] = SeqFold(i)
             /\ scores'[i] = SeqScores(i)
       /\ (pc' = "report" \/ cut_score' # Unset) =>
             (fold' = n_splits /\ Len(scores') = n_splits)
       /\ (pc = "cv_loop") =>
             /\ train' = SeqFold(fold + 1).train
             /\ test' = SeqFold(fold + 1).test
             /\ \/ pc' = "aborted" /\ fold' = fold /\ scores' = scores
                \/ /\ pc' \in {"cv_loop", "report"}
                   /\ fold' = fold + 1
                   /\ scores' = Append(scores, SeqScores(fold + 1))
             /\ (pc' = "report") <=> (fold' = n_splits)
       /\ (pc # "cv_loop") => fold' = fold
       /\ (pc \notin {"cv_loop", "cv_setup"}) => scores' = scores]_vars

\* a finished run of three folds whose score vectors all differ
C21_Witness ==
    /\ pc = "done"
    /\ n_splits = 3 /\ fold = 3 /\ Len(scores) = 3
    /\ scores[1] = SeqScores(1)
    /\ scores[2] = SeqScores(2)
    /\ scores[3] = SeqScores(3)
    /\ scores[1] # scores[2] /\ scores[2] # scores[3] /\ scores[1] # scores[3]

\* C22: the test indices of each fold are one run of consecutive ascending
\* indices inside 0..N-1, the run of fold i ends before the run of fold
\* i+1 starts, and the sizes of any two test sets differ by at most one.
C22_StructuredFolds ==
    (kf.pc = "split") =>
        /\ \A f \in 1 .. Len(kf.folds) :
              LET t == kf.folds[f].test
              IN  /\ Len(t) >= 1
                  /\ t[1] >= 0 /\ t[Len(t)] <= kf.n - 1
                  /\ \A j \in 1 .. (Len(t) - 1) : t[j + 1] = t[j] + 1
        /\ \A f \in 1 .. (Len(kf.folds) - 1) :
              \A x \in KfTestSet(f) : \A y \in KfTestSet(f + 1) : x < y
        /\ \A f, g \in 1 .. Len(kf.folds) :
              Abs(Len(kf.folds[f].test) - Len(kf.folds[g].test)) <= 1

\* 7 samples in 3 folds: ranges of 3, 2 and 2 indices, one after the other
C22_Witness ==
    /\ kf.pc = "split"
    /\ kf.n = 7 /\ kf.k = 3
    /\ kf.folds[1].test = <<0, 1, 2>>
    /\ kf.folds[2].test = <<3, 4>>
    /\ kf.folds[3].test = <<5, 6>>

====
